---- MODULE Spec2Model ----
(***************************************************************************)
(* The Shippo MCP server.  The API client (ShippoClientImpl): one client   *)
(* built from tenant credentials, its operations funnelled through the     *)
(* request primitive, the transport (fetch) answering with a status, a     *)
(* Retry-After header and a body, and the classification of that answer    *)
(* into a value or a typed failure.  The tool layer: one handler per tool  *)
(* around one client operation, returning a response envelope.  The        *)
(* Worker: its fetch handler building a server and a client per request.   *)
(***************************************************************************)
EXTENDS Integers, Sequences, FiniteSets, TLC

VARIABLES
  credentials,    \* this.credentials: [apiKey, baseUrl]
  baseUrl,        \* this.baseUrl
  op,             \* the client operation being served ("none" before the first)
  pc,             \* where the invocation stands: idle, fetching, readingText, readingJson, done
  netCalls,       \* calls of fetch made by the current invocation
  response,       \* the Response fetch resolved with: [status, retryAfter]
  body,           \* the body text delivered by response.text() / response.json()
  bodyReads,      \* calls of response.text() / response.json() made by the current invocation
  requestResult,  \* how this.request(...) ended
  result,         \* how the client operation ended
  args,           \* the arguments the client operation was called with
  outbound,       \* the call of fetch the current invocation made, if any
  tool,           \* the tool whose handler called the operation ("none": a direct call)
  format,         \* the format argument of the tool
  envelope,       \* what the tool handler returned
  sessions        \* the HTTP requests the Worker is serving, each with its own server

vars == <<credentials, baseUrl, op, pc, netCalls, response, body, bodyReads,
          requestResult, result, args, outbound, tool, format, envelope, sessions>>

\* Longest Retry-After header value the transport is made to answer with.
MaxHeaderLen == 3

-----------------------------------------------------------------------------
(* JavaScript values.  Numbers that come out of JSON are kept as their     *)
(* decimal text, so that values of different types never meet in an        *)
(* arithmetic comparison.                                                  *)

Undefined == [t |-> "undefined"]
Null == [t |-> "null"]
Str(s) == [t |-> "string", v |-> s]
Num(s) == [t |-> "number", v |-> s]
Arr(s) == [t |-> "array", v |-> s]
Obj(d, m, e, r) == [t |-> "object", detail |-> d, message |-> m, error |-> e, results |-> r]

\* ToBoolean: undefined, null, "" and 0 are falsy, every other value is truthy.
Truthy(v) == ~ (v = Undefined \/ v = Null \/ v = Str("") \/ v = Num("0"))

\* a || b
Or(a, b) == IF Truthy(a) THEN a ELSE b

\* v[name] for a value that is neither null nor undefined: only objects of
\* the remote's JSON carry the properties the client reads.
Prop(v, name) == IF v.t = "object" THEN v[name] ELSE Undefined

-----------------------------------------------------------------------------
(* Number.parseInt(s, 10) over a string given as a sequence of characters. *)

NaN == [nan |-> TRUE]
Number(n) == [nan |-> FALSE, n |-> n]

Digits == {"0", "1", "2", "3", "4", "5", "6", "7", "8", "9"}
WhiteSpace == {" "}

DigitVal(c) ==
  CASE c = "0" -> 0 [] c = "1" -> 1 [] c = "2" -> 2 [] c = "3" -> 3 [] c = "4" -> 4
    [] c = "5" -> 5 [] c = "6" -> 6 [] c = "7" -> 7 [] c = "8" -> 8 [] c = "9" -> 9

RECURSIVE TrimStart(_)
TrimStart(s) ==
  IF s # <<>> /\ Head(s) \in WhiteSpace THEN TrimStart(Tail(s)) ELSE s

RECURSIVE DigitPrefix(_)
DigitPrefix(s) ==
  IF s # <<>> /\ Head(s) \in Digits THEN <<Head(s)>> \o DigitPrefix(Tail(s)) ELSE <<>>

RECURSIVE Decimal(_)
Decimal(d) ==
  IF d = <<>> THEN 0
  ELSE 10 * Decimal(SubSeq(d, 1, Len(d) - 1)) + DigitVal(d[Len(d)])

ParseInt(s) ==
  LET t == TrimStart(s)
      neg == t # <<>> /\ Head(t) = "-"
      u == IF t # <<>> /\ Head(t) \in {"-", "+"} THEN Tail(t) ELSE t
      d == DigitPrefix(u)
  IN  IF d = <<>> THEN NaN
      ELSE Number(IF neg THEN 0 - Decimal(d) ELSE Decimal(d))

-----------------------------------------------------------------------------
(* The failures of utils/errors and of the runtime.                        *)

AuthenticationError(message) == [class |-> "AuthenticationError", message |-> message]
RateLimitError(message, retryAfterSeconds) ==
  [class |-> "RateLimitError", message |-> message, retryAfterSeconds |-> retryAfterSeconds]
ShippoApiError(message, statusCode) ==
  [class |-> "ShippoApiError", message |-> message, statusCode |-> statusCode]
\* error instanceof ShippoApiError
InstanceOfShippoApiError(e) == e.class = "ShippoApiError"

\* fetch and the body readers reject with a TypeError; response.json()
\* rejects with a SyntaxError on a body that is not JSON; reading a property
\* of null or undefined throws a TypeError.
TypeError(message) == [class |-> "TypeError", message |-> message]
SyntaxError(message) == [class |-> "SyntaxError", message |-> message]

Pending == [kind |-> "pending"]
Return(v) == [kind |-> "return", value |-> v]
Throw(e) == [kind |-> "throw", error |-> e]

-----------------------------------------------------------------------------
(* What the transport can answer.                                          *)

API_BASE_URL == "https://api.goshippo.com"

ApiKeys == {Undefined, Str(""), Str("shippo_test_key")}
BaseUrls == {Undefined, Str("https://mock.shippo.test")}
Credentials == [apiKey : ApiKeys, baseUrl : BaseUrls]

Statuses == {200, 201, 204, 299, 300, 304, 400, 401, 402, 403, 404, 422, 428,
             429, 430, 500, 503, 599}

\* response.ok
ResponseOk(status) == status >= 200 /\ status <= 299

NoHeader == [has |-> FALSE]
Header(s) == [has |-> TRUE, s |-> s]

HeaderChars == {"0", "1", "2", "N", "a", "-", " "}
\* Headers.get returns a value with no leading or trailing whitespace.
HeaderStrings ==
  {s \in UNION {[1..n -> HeaderChars] : n \in 0..MaxHeaderLen} :
     s = <<>> \/ (s[1] \notin WhiteSpace /\ s[Len(s)] \notin WhiteSpace)}
RetryAfterHeaders == {NoHeader} \cup {Header(s) : s \in HeaderStrings}

\* The values one property of a JSON object of the remote takes: absent, a
\* text naming the property, the empty text, 0, null and a non-zero number.
FieldValues(name) == {Undefined, Str(name), Str(""), Num("0"), Null, Num("7")}

JsonValues ==
  {Obj(d, m, e, Undefined) :
     d \in FieldValues("detail"), m \in FieldValues("message"), e \in FieldValues("error")}
  \cup {Obj(Undefined, Undefined, Undefined, Arr("rates")),
        Null, Str("plain"), Num("7"), Arr("list")}

NotJson(text) == [json |-> FALSE, text |-> text]
Json(v) == [json |-> TRUE, value |-> v]
NoBody == [json |-> FALSE, text |-> "(unread)"]

Bodies == {NotJson(""), NotJson("<html>Bad Gateway</html>")} \cup {Json(v) : v \in JsonValues}

\* The headers a response carries: the Retry-After values are varied on the
\* status whose handling reads them.
HeadersOf(status) ==
  IF status = 429 THEN RetryAfterHeaders ELSE {NoHeader, Header(<<"1", "2", "0">>)}

-----------------------------------------------------------------------------
(* The client.                                                             *)

Operations == {"getAddress", "createAddress", "deleteServiceGroup", "testConnection",
               "createLiveRate", "getDefaultParcelTemplate"}

\* A constructor that ignores the baseUrl of the credentials.
Constructor_DefaultOnly(c) == Str(API_BASE_URL)

\* constructor: baseUrl = credentials.baseUrl || API_BASE_URL
Constructor(c) == Or(c.baseUrl, Str(API_BASE_URL))

\* getAuthHeaders testing the key against undefined only: an empty key passes.
GetAuthHeaders_UndefinedOnly(c) ==
  IF c.apiKey = Undefined
  THEN Throw(AuthenticationError(Str("No credentials provided. Include X-Shippo-API-Key header.")))
  ELSE Return(("Authorization" :> "ShippoToken " \o c.apiKey.v)
                 @@ ("Content-Type" :> "application/json"))

\* getAuthHeaders throwing a plain Error, as validateCredentials does.
GetAuthHeaders_PlainError(c) ==
  IF ~ Truthy(c.apiKey)
  THEN Throw([class |-> "Error",
              message |-> Str("No credentials provided. Include X-Shippo-API-Key header.")])
  ELSE Return(("Authorization" :> "ShippoToken " \o c.apiKey.v)
                 @@ ("Content-Type" :> "application/json"))

\* getAuthHeaders: throws without a usable key, else the two computed headers.
GetAuthHeaders(c) ==
  IF ~ Truthy(c.apiKey)
  THEN Throw(AuthenticationError(Str("No credentials provided. Include X-Shippo-API-Key header.")))
  ELSE Return(("Authorization" :> "ShippoToken " \o c.apiKey.v)
                 @@ ("Content-Type" :> "application/json"))

\* retryAfter ? Number.parseInt(retryAfter, 10) : 60
RetryAfterSeconds(h) ==
  IF h.has /\ h.s # <<>> THEN ParseInt(h.s) ELSE Number(60)

\* request testing response.ok before the 429 and 401/403 checks.
Classify_OkFirst(status, retryAfter) ==
  IF ~ ResponseOk(status)
  THEN [next |-> "readingText", outcome |-> Pending]
  ELSE IF status = 204
  THEN [next |-> "done", outcome |-> Return(Undefined)]
  ELSE [next |-> "readingJson", outcome |-> Pending]

\* request with the authentication check on 401 alone.
Classify_No403(status, retryAfter) ==
  IF status = 429
  THEN [next |-> "done",
        outcome |-> Throw(RateLimitError(Str("Rate limit exceeded"), RetryAfterSeconds(retryAfter)))]
  ELSE IF status = 401
  THEN [next |-> "done",
        outcome |-> Throw(AuthenticationError(Str("Authentication failed. Check your Shippo API key.")))]
  ELSE IF ~ ResponseOk(status)
  THEN [next |-> "readingText", outcome |-> Pending]
  ELSE IF status = 204
  THEN [next |-> "done", outcome |-> Return(Undefined)]
  ELSE [next |-> "readingJson", outcome |-> Pending]

\* request without the 204 check: every 2xx body is handed to response.json().
Classify_No204(status, retryAfter) ==
  IF status = 429
  THEN [next |-> "done",
        outcome |-> Throw(RateLimitError(Str("Rate limit exceeded"), RetryAfterSeconds(retryAfter)))]
  ELSE IF status = 401 \/ status = 403
  THEN [next |-> "done",
        outcome |-> Throw(AuthenticationError(Str("Authentication failed. Check your Shippo API key.")))]
  ELSE IF ~ ResponseOk(status)
  THEN [next |-> "readingText", outcome |-> Pending]
  ELSE [next |-> "readingJson", outcome |-> Pending]

\* request, from the resolved fetch to its first read of the body: the
\* outcome when the status alone decides it, else the reader it awaits.
Classify(status, retryAfter) ==
  IF status = 429
  THEN [next |-> "done",
        outcome |-> Throw(RateLimitError(Str("Rate limit exceeded"), RetryAfterSeconds(retryAfter)))]
  ELSE IF status = 401 \/ status = 403
  THEN [next |-> "done",
        outcome |-> Throw(AuthenticationError(Str("Authentication failed. Check your Shippo API key.")))]
  ELSE IF ~ ResponseOk(status)
  THEN [next |-> "readingText", outcome |-> Pending]
  ELSE IF status = 204
  THEN [next |-> "done", outcome |-> Return(Undefined)]
  ELSE [next |-> "readingJson", outcome |-> Pending]

\* The message read as message || detail || error.
ErrorMessage_MessageFirst(b, status) ==
  LET default == Str("API error: " \o ToString(status))
  IN  IF ~ b.json THEN default
      ELSE IF b.value = Null THEN default
      ELSE Or(Or(Or(Prop(b.value, "message"), Prop(b.value, "detail")),
                 Prop(b.value, "error")),
              default)

\* The message of the generic failure: JSON.parse of the body text, then
\* detail || message || error || the default; a body that is not JSON, and
\* the JSON null (whose property read throws), leave the default.
ErrorMessage(b, status) ==
  LET default == Str("API error: " \o ToString(status))
  IN  IF ~ b.json THEN default
      ELSE IF b.value = Null THEN default
      ELSE Or(Or(Or(Prop(b.value, "detail"), Prop(b.value, "message")),
                 Prop(b.value, "error")),
              default)

\* The generic failure built with a fixed status of 500.
GenericFailure_Status500(b, status) == Throw(ShippoApiError(ErrorMessage(b, status), 500))

\* request, after response.text() resolved on a non-2xx response.
GenericFailure(b, status) == Throw(ShippoApiError(ErrorMessage(b, status), status))

\* request, after response.json() settled on a 2xx response.
ParsedBody(b) ==
  IF b.json THEN Return(b.value)
  ELSE Throw(SyntaxError(Str("Unexpected token in JSON")))

\* testConnection answering connected: true whatever the request did.
TestConnection_AlwaysConnected(rr) ==
  Return([t |-> "object", connected |-> TRUE,
          message |-> Str("Successfully connected to Shippo API")])

\* testConnection letting the failure of request through.
TestConnection_Rethrow(rr) ==
  IF rr.kind = "return"
  THEN Return([t |-> "object", connected |-> TRUE,
               message |-> Str("Successfully connected to Shippo API")])
  ELSE rr

\* testConnection: the request's outcome turned into {connected, message}.
TestConnection(rr) ==
  IF rr.kind = "return"
  THEN Return([t |-> "object", connected |-> TRUE,
               message |-> Str("Successfully connected to Shippo API")])
  ELSE Return([t |-> "object", connected |-> FALSE, message |-> rr.error.message])

\* createLiveRate returning the body as it came.
CreateLiveRate_WholeBody(rr) == rr

\* createLiveRate: response.results
CreateLiveRate(rr) ==
  IF rr.kind = "throw" THEN rr
  ELSE IF rr.value = Undefined \/ rr.value = Null
  THEN Throw(TypeError(Str("Cannot read properties of null or undefined (reading 'results')")))
  ELSE Return(Prop(rr.value, "results"))

\* getDefaultParcelTemplate without its catch.
GetDefaultParcelTemplate_NoCatch(rr) == rr

\* getDefaultParcelTemplate without the test of the status code.
GetDefaultParcelTemplate_AnyApiError(rr) ==
  IF rr.kind = "throw"
  THEN IF InstanceOfShippoApiError(rr.error) THEN Return(Null) ELSE rr
  ELSE rr

\* getDefaultParcelTemplate: a ShippoApiError of status 404 becomes null.
GetDefaultParcelTemplate(rr) ==
  IF rr.kind = "throw"
  THEN IF InstanceOfShippoApiError(rr.error) /\ rr.error.statusCode = 404
       THEN Return(Null)
       ELSE rr
  ELSE rr

\* deleteServiceGroup: await this.request(...), nothing returned.
DeleteServiceGroup(rr) == IF rr.kind = "throw" THEN rr ELSE Return(Undefined)

\* deleteUserParcelTemplate, deleteDefaultParcelTemplate: the same.
DeleteUserParcelTemplate(rr) == IF rr.kind = "throw" THEN rr ELSE Return(Undefined)
DeleteDefaultParcelTemplate(rr) == IF rr.kind = "throw" THEN rr ELSE Return(Undefined)

\* return this.request(...)
PassThrough(rr) == rr

\* The operation's own code around its call of request.
Finish(o, rr) ==
  CASE o = "testConnection" -> TestConnection(rr)
    [] o = "createLiveRate" -> CreateLiveRate(rr)
    [] o = "getDefaultParcelTemplate" -> GetDefaultParcelTemplate(rr)
    [] o = "deleteServiceGroup" -> DeleteServiceGroup(rr)
    [] o = "deleteUserParcelTemplate" -> DeleteUserParcelTemplate(rr)
    [] o = "deleteDefaultParcelTemplate" -> DeleteDefaultParcelTemplate(rr)
    [] OTHER -> PassThrough(rr)

-----------------------------------------------------------------------------
(* The requests of the client operations: the endpoint and the options     *)
(* each operation hands to request, and the call of fetch that request     *)
(* makes of them.                                                          *)

ClientOperations ==
  {"testConnection", "listAddresses", "getAddress", "createAddress",
   "validateAddress", "listParcels", "getParcel", "createParcel",
   "listShipments", "getShipment", "createShipment", "getRate",
   "listShipmentRates", "listTransactions", "getTransaction",
   "createTransaction", "createInstantTransaction", "getTrackingStatus",
   "registerTrackingWebhook", "createRefund", "getRefund",
   "listCarrierAccounts", "getCarrierAccount", "createCarrierAccount",
   "updateCarrierAccount", "listCustomsItems", "getCustomsItem",
   "createCustomsItem", "listCustomsDeclarations", "getCustomsDeclaration",
   "createCustomsDeclaration", "listManifests", "getManifest",
   "createManifest", "getBatch", "createBatch", "addShipmentsToBatch",
   "removeShipmentsFromBatch", "purchaseBatch", "createPickup",
   "listOrders", "getOrder", "createOrder", "listServiceGroups",
   "createServiceGroup", "updateServiceGroup", "deleteServiceGroup",
   "listCarrierParcelTemplates", "getCarrierParcelTemplate",
   "listUserParcelTemplates", "getUserParcelTemplate",
   "createUserParcelTemplate", "deleteUserParcelTemplate", "createLiveRate",
   "getDefaultParcelTemplate", "updateDefaultParcelTemplate",
   "deleteDefaultParcelTemplate"}

\* Identifiers, currencies, tracking numbers and inputs the operations are called with.
Ids == {"obj_1", "obj_2"}
Currencies == {Undefined, Str(""), Str("USD")}
TrackingNumbers == {Str("9400100000000000000000")}
Inputs == {[t |-> "object", name |-> Str("Warehouse")], [t |-> "object", name |-> Undefined]}

\* A query parameter value that is neither undefined nor null, given by the
\* characters String(value) yields.
ParamNum(cs) == [t |-> "number", cs |-> cs]
ParamStr(cs) == [t |-> "string", cs |-> cs]
String(value) == value.cs

ParamKeys == {"results", "page"}
ParamValues ==
  {Undefined, Null, ParamNum(<<"0">>), ParamNum(<<"2", "0">>), ParamStr(<<>>),
   ParamStr(<<"a", " ", "b">>), ParamStr(<<"a", "&">>)}

\* A params object: its entries <<key, value>> in insertion order, the keys distinct.
Params(entries) == [t |-> "object", entries |-> entries]
ParamObjects ==
  {Undefined, Params(<<>>)}
    \cup {Params(<<<<k, v>>>>) : k \in ParamKeys, v \in ParamValues}
    \cup {Params(<<<<e[1], e[3]>>, <<e[2], e[4]>>>>) :
            e \in {x \in ParamKeys \X ParamKeys \X ParamValues \X ParamValues : x[1] # x[2]}}
PageParams ==
  {Undefined, Params(<<<<"results", ParamNum(<<"2", "0">>)>>, <<"page", Undefined>>>>)}

\* The application/x-www-form-urlencoded serializer of URLSearchParams, by character.
FormEncodeChar(c) ==
  CASE c = " " -> "+"
    [] c = "&" -> "%26"
    [] c = "=" -> "%3D"
    [] c = "?" -> "%3F"
    [] OTHER -> c

RECURSIVE FormEncode(_)
FormEncode(cs) == IF cs = <<>> THEN "" ELSE FormEncodeChar(Head(cs)) \o FormEncode(Tail(cs))

\* query.set putting a new key in front of the others.
QuerySet_Prepend(query, key, value) ==
  IF \E i \in 1..Len(query) : query[i][1] = key
  THEN [i \in 1..Len(query) |-> IF query[i][1] = key THEN <<key, value>> ELSE query[i]]
  ELSE <<<<key, value>>>> \o query

\* query.set(key, value): the value of an existing key is replaced, a new key appended.
QuerySet(query, key, value) ==
  IF \E i \in 1..Len(query) : query[i][1] = key
  THEN [i \in 1..Len(query) |-> IF query[i][1] = key THEN <<key, value>> ELSE query[i]]
  ELSE Append(query, <<key, value>>)

\* query.toString(): key=value pairs joined by "&".
RECURSIVE QueryToString(_)
QueryToString(query) ==
  IF query = <<>> THEN ""
  ELSE LET pair == query[1][1] \o "=" \o FormEncode(query[1][2])
       IN  IF Len(query) = 1 THEN pair ELSE pair \o "&" \o QueryToString(Tail(query))

\* The loop of buildQueryString over Object.entries(params).
RECURSIVE SetEntries(_, _)
SetEntries(query, entries) ==
  IF entries = <<>> THEN query
  ELSE LET key == entries[1][1]
           value == entries[1][2]
       IN  SetEntries(IF value # Undefined /\ value # Null
                      THEN QuerySet(query, key, String(value))
                      ELSE query,
                      Tail(entries))

\* buildQueryString setting only the truthy values.
BuildQueryString_TruthyOnly(params) ==
  IF ~ Truthy(params) THEN ""
  ELSE LET kept == SelectSeq(params.entries,
                     LAMBDA e : e[2] \notin {Undefined, Null, ParamNum(<<"0">>), ParamStr(<<>>)})
           str == QueryToString(SetEntries(<<>>, kept))
       IN  IF str # "" THEN "?" \o str ELSE ""

\* buildQueryString
BuildQueryString(params) ==
  IF ~ Truthy(params) THEN ""
  ELSE LET str == QueryToString(SetEntries(<<>>, params.entries))
       IN  IF str # "" THEN "?" \o str ELSE ""

\* The arguments of an operation: an id (or carrier), a second path value
\* (currency or tracking number), the params of a list, the input of a write,
\* and for request itself the headers of its options.
NoArgs ==
  [id |-> "", sub |-> Undefined, params |-> Undefined, input |-> Undefined,
   headers |-> Undefined]

TakesParams ==
  {"listAddresses", "listParcels", "listShipments", "listTransactions",
   "listCarrierAccounts", "listCustomsItems", "listCustomsDeclarations",
   "listManifests", "listOrders", "listCarrierParcelTemplates",
   "listUserParcelTemplates"}

TakesId ==
  {"getAddress", "validateAddress", "getParcel", "getShipment", "getRate",
   "getTransaction", "getRefund", "getCarrierAccount", "getCustomsItem",
   "getCustomsDeclaration", "getManifest", "getBatch", "purchaseBatch",
   "getOrder", "deleteServiceGroup", "getCarrierParcelTemplate",
   "getUserParcelTemplate", "deleteUserParcelTemplate"}

TakesIdAndInput ==
  {"updateCarrierAccount", "addShipmentsToBatch",
   "removeShipmentsFromBatch"}

TakesInput ==
  {"createAddress", "createParcel", "createShipment", "createTransaction",
   "createInstantTransaction", "registerTrackingWebhook", "createRefund",
   "createCarrierAccount", "createCustomsItem",
   "createCustomsDeclaration", "createManifest", "createBatch",
   "createPickup", "createOrder", "createServiceGroup",
   "updateServiceGroup", "createUserParcelTemplate", "createLiveRate",
   "updateDefaultParcelTemplate"}

ArgsOf(o) ==
  CASE o \in TakesParams ->
         {[NoArgs EXCEPT !.params = p] :
            p \in IF o = "listAddresses" THEN ParamObjects ELSE PageParams}
    [] o \in TakesId -> {[NoArgs EXCEPT !.id = i] : i \in Ids}
    [] o \in TakesIdAndInput -> {[NoArgs EXCEPT !.id = i, !.input = n] : i \in Ids, n \in Inputs}
    [] o \in TakesInput -> {[NoArgs EXCEPT !.input = n] : n \in Inputs}
    [] o = "listShipmentRates" -> {[NoArgs EXCEPT !.id = i, !.sub = c] : i \in Ids, c \in Currencies}
    [] o = "getTrackingStatus" -> {[NoArgs EXCEPT !.id = "usps", !.sub = n] : n \in TrackingNumbers}
    [] OTHER -> {NoArgs}

\* JSON.stringify(value): the text whose parse is the value; undefined for undefined.
JSONStringify(value) == IF value = Undefined THEN Undefined ELSE [t |-> "json text", of |-> value]

\* The RequestInit an operation passes: method and body, never headers.
Options(method, payload) == [method |-> method, body |-> payload, headers |-> Undefined]

\* this.request(endpoint, options)
Call(endpoint, options) == [endpoint |-> endpoint, options |-> options]

\* validateAddress issued as a POST.
ValidateAddressRequest_Post(a) ==
  Call("/addresses/" \o a.id \o "/validate", Options(Str("POST"), Undefined))

\* validateAddress: this.request(`/addresses/${id}/validate`), no method given
ValidateAddressRequest(a) ==
  Call("/addresses/" \o a.id \o "/validate", Options(Undefined, Undefined))

\* updateCarrierAccount spelling the collection with a hyphen.
UpdateCarrierAccountRequest_Hyphen(a) ==
  Call("/carrier-accounts/" \o a.id, Options(Str("PUT"), JSONStringify(a.input)))

\* updateCarrierAccount: the id is part of the path
UpdateCarrierAccountRequest(a) ==
  Call("/carrier_accounts/" \o a.id, Options(Str("PUT"), JSONStringify(a.input)))

\* addShipmentsToBatch
AddShipmentsToBatchRequest(a) ==
  Call("/batches/" \o a.id \o "/add_shipments", Options(Str("POST"), JSONStringify(a.input)))

\* removeShipmentsFromBatch
RemoveShipmentsFromBatchRequest(a) ==
  Call("/batches/" \o a.id \o "/remove_shipments", Options(Str("POST"), JSONStringify(a.input)))

\* purchaseBatch: a POST without body
PurchaseBatchRequest(a) ==
  Call("/batches/" \o a.id \o "/purchase", Options(Str("POST"), Undefined))

\* updateServiceGroup: the collection path, the input as body
UpdateServiceGroupRequest(a) ==
  Call("/service-groups", Options(Str("PUT"), JSONStringify(a.input)))

\* updateDefaultParcelTemplate: the settings path, the input as body
UpdateDefaultParcelTemplateRequest(a) ==
  Call("/live-rates/settings/parcel-template", Options(Str("PUT"), JSONStringify(a.input)))

\* The call of request each operation makes.
Endpoint(o, a) ==
  CASE o = "testConnection" ->
         Call("/addresses?results=1", Options(Undefined, Undefined))
    [] o = "listAddresses" ->
         Call("/addresses" \o BuildQueryString(a.params), Options(Undefined, Undefined))
    [] o = "getAddress" ->
         Call("/addresses/" \o a.id, Options(Undefined, Undefined))
    [] o = "createAddress" ->
         Call("/addresses", Options(Str("POST"), JSONStringify(a.input)))
    [] o = "validateAddress" ->
         ValidateAddressRequest(a)
    [] o = "listParcels" ->
         Call("/parcels" \o BuildQueryString(a.params), Options(Undefined, Undefined))
    [] o = "getParcel" ->
         Call("/parcels/" \o a.id, Options(Undefined, Undefined))
    [] o = "createParcel" ->
         Call("/parcels", Options(Str("POST"), JSONStringify(a.input)))
    [] o = "listShipments" ->
         Call("/shipments" \o BuildQueryString(a.params), Options(Undefined, Undefined))
    [] o = "getShipment" ->
         Call("/shipments/" \o a.id, Options(Undefined, Undefined))
    [] o = "createShipment" ->
         Call("/shipments", Options(Str("POST"), JSONStringify(a.input)))
    [] o = "getRate" ->
         Call("/rates/" \o a.id, Options(Undefined, Undefined))
    [] o = "listShipmentRates" ->
         Call(IF Truthy(a.sub)
              THEN "/shipments/" \o a.id \o "/rates/" \o a.sub.v
              ELSE "/shipments/" \o a.id \o "/rates",
              Options(Undefined, Undefined))
    [] o = "listTransactions" ->
         Call("/transactions" \o BuildQueryString(a.params), Options(Undefined, Undefined))
    [] o = "getTransaction" ->
         Call("/transactions/" \o a.id, Options(Undefined, Undefined))
    [] o = "createTransaction" ->
         Call("/transactions", Options(Str("POST"), JSONStringify(a.input)))
    [] o = "createInstantTransaction" ->
         Call("/transactions", Options(Str("POST"), JSONStringify(a.input)))
    [] o = "getTrackingStatus" ->
         Call("/tracks/" \o a.id \o "/" \o a.sub.v, Options(Undefined, Undefined))
    [] o = "registerTrackingWebhook" ->
         Call("/tracks", Options(Str("POST"), JSONStringify(a.input)))
    [] o = "createRefund" ->
         Call("/refunds", Options(Str("POST"), JSONStringify(a.input)))
    [] o = "getRefund" ->
         Call("/refunds/" \o a.id, Options(Undefined, Undefined))
    [] o = "listCarrierAccounts" ->
         Call("/carrier_accounts" \o BuildQueryString(a.params), Options(Undefined, Undefined))
    [] o = "getCarrierAccount" ->
         Call("/carrier_accounts/" \o a.id, Options(Undefined, Undefined))
    [] o = "createCarrierAccount" ->
         Call("/carrier_accounts", Options(Str("POST"), JSONStringify(a.input)))
    [] o = "updateCarrierAccount" ->
         UpdateCarrierAccountRequest(a)
    [] o = "listCustomsItems" ->
         Call("/customs/items" \o BuildQueryString(a.params), Options(Undefined, Undefined))
    [] o = "getCustomsItem" ->
         Call("/customs/items/" \o a.id, Options(Undefined, Undefined))
    [] o = "createCustomsItem" ->
         Call("/customs/items", Options(Str("POST"), JSONStringify(a.input)))
    [] o = "listCustomsDeclarations" ->
         Call("/customs/declarations" \o BuildQueryString(a.params), Options(Undefined, Undefined))
    [] o = "getCustomsDeclaration" ->
         Call("/customs/declarations/" \o a.id, Options(Undefined, Undefined))
    [] o = "createCustomsDeclaration" ->
         Call("/customs/declarations", Options(Str("POST"), JSONStringify(a.input)))
    [] o = "listManifests" ->
         Call("/manifests" \o BuildQueryString(a.params), Options(Undefined, Undefined))
    [] o = "getManifest" ->
         Call("/manifests/" \o a.id, Options(Undefined, Undefined))
    [] o = "createManifest" ->
         Call("/manifests", Options(Str("POST"), JSONStringify(a.input)))
    [] o = "getBatch" ->
         Call("/batches/" \o a.id, Options(Undefined, Undefined))
    [] o = "createBatch" ->
         Call("/batches", Options(Str("POST"), JSONStringify(a.input)))
    [] o = "addShipmentsToBatch" ->
         AddShipmentsToBatchRequest(a)
    [] o = "removeShipmentsFromBatch" ->
         RemoveShipmentsFromBatchRequest(a)
    [] o = "purchaseBatch" ->
         PurchaseBatchRequest(a)
    [] o = "createPickup" ->
         Call("/pickups", Options(Str("POST"), JSONStringify(a.input)))
    [] o = "listOrders" ->
         Call("/orders" \o BuildQueryString(a.params), Options(Undefined, Undefined))
    [] o = "getOrder" ->
         Call("/orders/" \o a.id, Options(Undefined, Undefined))
    [] o = "createOrder" ->
         Call("/orders", Options(Str("POST"), JSONStringify(a.input)))
    [] o = "listServiceGroups" ->
         Call("/service-groups", Options(Undefined, Undefined))
    [] o = "createServiceGroup" ->
         Call("/service-groups", Options(Str("POST"), JSONStringify(a.input)))
    [] o = "updateServiceGroup" ->
         UpdateServiceGroupRequest(a)
    [] o = "deleteServiceGroup" ->
         Call("/service-groups/" \o a.id, Options(Str("DELETE"), Undefined))
    [] o = "listCarrierParcelTemplates" ->
         Call("/parcel-templates" \o BuildQueryString(a.params), Options(Undefined, Undefined))
    [] o = "getCarrierParcelTemplate" ->
         Call("/parcel-templates/" \o a.id, Options(Undefined, Undefined))
    [] o = "listUserParcelTemplates" ->
         Call("/user-parcel-templates" \o BuildQueryString(a.params), Options(Undefined, Undefined))
    [] o = "getUserParcelTemplate" ->
         Call("/user-parcel-templates/" \o a.id, Options(Undefined, Undefined))
    [] o = "createUserParcelTemplate" ->
         Call("/user-parcel-templates", Options(Str("POST"), JSONStringify(a.input)))
    [] o = "deleteUserParcelTemplate" ->
         Call("/user-parcel-templates/" \o a.id, Options(Str("DELETE"), Undefined))
    [] o = "createLiveRate" ->
         Call("/live-rates", Options(Str("POST"), JSONStringify(a.input)))
    [] o = "getDefaultParcelTemplate" ->
         Call("/live-rates/settings/parcel-template", Options(Undefined, Undefined))
    [] o = "updateDefaultParcelTemplate" ->
         UpdateDefaultParcelTemplateRequest(a)
    [] o = "deleteDefaultParcelTemplate" ->
         Call("/live-rates/settings/parcel-template", Options(Str("DELETE"), Undefined))

\* The headers a caller of request may pass in options.headers.
NoHeaders == [k \in {} |-> ""]
HeadersObject(h) == [t |-> "object", h |-> h]
CallerHeaders ==
  {Undefined,
   HeadersObject(NoHeaders),
   HeadersObject("Content-Type" :> "text/plain"),
   HeadersObject("Authorization" :> "Bearer other"),
   HeadersObject("X-Request-Id" :> "r1"),
   HeadersObject(("Authorization" :> "Bearer other") @@ ("Accept" :> "text/csv"))}

\* {...a, ...b}: the keys of both, the value of b where both have the key.
Spread(a, b) == b @@ a

\* The headers spread with the auth headers first, the caller's last.
MergeHeaders_AuthLast(auth, headers) ==
  Spread(IF Truthy(headers) THEN headers.h ELSE NoHeaders, auth)

\* { ...this.getAuthHeaders(), ...(options.headers || {}) }
MergeHeaders(auth, headers) ==
  Spread(auth, IF Truthy(headers) THEN headers.h ELSE NoHeaders)

\* No call of fetch made.
NoCall == [sent |-> FALSE]

\* fetch(url, {...options, headers}) as request calls it.
FetchCall(base, call, auth) ==
  [sent |-> TRUE,
   url |-> base.v \o call.endpoint,
   method |-> call.options.method,
   body |-> call.options.body,
   headers |-> MergeHeaders(auth, call.options.headers)]

\* The method of a call of fetch: GET when the init names none.
HttpMethod(c) == IF c.method = Undefined THEN "GET" ELSE c.method.v

-----------------------------------------------------------------------------
(* The tool layer: one handler per tool, each calling one client operation *)
(* inside a try block and turning what it gets into a response envelope.   *)

Tools ==
  {"shippo_test_connection", "shippo_get_batch", "shippo_create_batch",
   "shippo_add_shipments_to_batch", "shippo_remove_shipments_from_batch",
   "shippo_purchase_batch", "shippo_list_parcels", "shippo_get_parcel",
   "shippo_create_parcel", "shippo_create_live_rate",
   "shippo_get_default_parcel_template",
   "shippo_update_default_parcel_template",
   "shippo_delete_default_parcel_template", "shippo_list_orders",
   "shippo_get_order", "shippo_create_order", "shippo_create_pickup",
   "shippo_list_shipments", "shippo_get_shipment",
   "shippo_create_shipment", "shippo_get_tracking_status",
   "shippo_register_tracking_webhook", "shippo_list_customs_items",
   "shippo_get_customs_item", "shippo_create_customs_item",
   "shippo_list_customs_declarations", "shippo_get_customs_declaration",
   "shippo_create_customs_declaration", "shippo_list_transactions",
   "shippo_get_transaction", "shippo_create_transaction",
   "shippo_create_instant_transaction",
   "shippo_list_carrier_parcel_templates",
   "shippo_get_carrier_parcel_template",
   "shippo_list_user_parcel_templates", "shippo_get_user_parcel_template",
   "shippo_create_user_parcel_template",
   "shippo_delete_user_parcel_template", "shippo_list_manifests",
   "shippo_get_manifest", "shippo_create_manifest",
   "shippo_list_service_groups", "shippo_create_service_group",
   "shippo_update_service_group", "shippo_delete_service_group",
   "shippo_list_carrier_accounts", "shippo_get_carrier_account",
   "shippo_create_carrier_account", "shippo_update_carrier_account",
   "shippo_create_refund", "shippo_get_refund", "shippo_list_addresses",
   "shippo_get_address", "shippo_create_address",
   "shippo_validate_address", "shippo_get_rate",
   "shippo_list_shipment_rates"}

\* The client operation each tool handler calls.
ToolOp(t) ==
  CASE t = "shippo_test_connection" -> "testConnection"
    [] t = "shippo_get_batch" -> "getBatch"
    [] t = "shippo_create_batch" -> "createBatch"
    [] t = "shippo_add_shipments_to_batch" -> "addShipmentsToBatch"
    [] t = "shippo_remove_shipments_from_batch" -> "removeShipmentsFromBatch"
    [] t = "shippo_purchase_batch" -> "purchaseBatch"
    [] t = "shippo_list_parcels" -> "listParcels"
    [] t = "shippo_get_parcel" -> "getParcel"
    [] t = "shippo_create_parcel" -> "createParcel"
    [] t = "shippo_create_live_rate" -> "createLiveRate"
    [] t = "shippo_get_default_parcel_template" -> "getDefaultParcelTemplate"
    [] t = "shippo_update_default_parcel_template" -> "updateDefaultParcelTemplate"
    [] t = "shippo_delete_default_parcel_template" -> "deleteDefaultParcelTemplate"
    [] t = "shippo_list_orders" -> "listOrders"
    [] t = "shippo_get_order" -> "getOrder"
    [] t = "shippo_create_order" -> "createOrder"
    [] t = "shippo_create_pickup" -> "createPickup"
    [] t = "shippo_list_shipments" -> "listShipments"
    [] t = "shippo_get_shipment" -> "getShipment"
    [] t = "shippo_create_shipment" -> "createShipment"
    [] t = "shippo_get_tracking_status" -> "getTrackingStatus"
    [] t = "shippo_register_tracking_webhook" -> "registerTrackingWebhook"
    [] t = "shippo_list_customs_items" -> "listCustomsItems"
    [] t = "shippo_get_customs_item" -> "getCustomsItem"
    [] t = "shippo_create_customs_item" -> "createCustomsItem"
    [] t = "shippo_list_customs_declarations" -> "listCustomsDeclarations"
    [] t = "shippo_get_customs_declaration" -> "getCustomsDeclaration"
    [] t = "shippo_create_customs_declaration" -> "createCustomsDeclaration"
    [] t = "shippo_list_transactions" -> "listTransactions"
    [] t = "shippo_get_transaction" -> "getTransaction"
    [] t = "shippo_create_transaction" -> "createTransaction"
    [] t = "shippo_create_instant_transaction" -> "createInstantTransaction"
    [] t = "shippo_list_carrier_parcel_templates" -> "listCarrierParcelTemplates"
    [] t = "shippo_get_carrier_parcel_template" -> "getCarrierParcelTemplate"
    [] t = "shippo_list_user_parcel_templates" -> "listUserParcelTemplates"
    [] t = "shippo_get_user_parcel_template" -> "getUserParcelTemplate"
    [] t = "shippo_create_user_parcel_template" -> "createUserParcelTemplate"
    [] t = "shippo_delete_user_parcel_template" -> "deleteUserParcelTemplate"
    [] t = "shippo_list_manifests" -> "listManifests"
    [] t = "shippo_get_manifest" -> "getManifest"
    [] t = "shippo_create_manifest" -> "createManifest"
    [] t = "shippo_list_service_groups" -> "listServiceGroups"
    [] t = "shippo_create_service_group" -> "createServiceGroup"
    [] t = "shippo_update_service_group" -> "updateServiceGroup"
    [] t = "shippo_delete_service_group" -> "deleteServiceGroup"
    [] t = "shippo_list_carrier_accounts" -> "listCarrierAccounts"
    [] t = "shippo_get_carrier_account" -> "getCarrierAccount"
    [] t = "shippo_create_carrier_account" -> "createCarrierAccount"
    [] t = "shippo_update_carrier_account" -> "updateCarrierAccount"
    [] t = "shippo_create_refund" -> "createRefund"
    [] t = "shippo_get_refund" -> "getRefund"
    [] t = "shippo_list_addresses" -> "listAddresses"
    [] t = "shippo_get_address" -> "getAddress"
    [] t = "shippo_create_address" -> "createAddress"
    [] t = "shippo_validate_address" -> "validateAddress"
    [] t = "shippo_get_rate" -> "getRate"
    [] t = "shippo_list_shipment_rates" -> "listShipmentRates"

\* Handlers that return formatResponse(result, format, entityType).
FormatTools ==
  {"shippo_list_parcels", "shippo_get_parcel", "shippo_list_orders",
   "shippo_get_order", "shippo_list_shipments", "shippo_get_shipment",
   "shippo_list_customs_items", "shippo_get_customs_item",
   "shippo_list_customs_declarations", "shippo_get_customs_declaration",
   "shippo_list_transactions", "shippo_get_transaction",
   "shippo_list_carrier_parcel_templates",
   "shippo_get_carrier_parcel_template",
   "shippo_list_user_parcel_templates", "shippo_get_user_parcel_template",
   "shippo_list_manifests", "shippo_get_manifest",
   "shippo_list_carrier_accounts", "shippo_get_carrier_account",
   "shippo_list_addresses", "shippo_get_address", "shippo_get_rate",
   "shippo_list_shipment_rates"}

\* Handlers that read properties of the result into a summary.
ReadingTools ==
  {"shippo_purchase_batch", "shippo_create_live_rate",
   "shippo_create_order", "shippo_create_pickup",
   "shippo_register_tracking_webhook", "shippo_create_transaction",
   "shippo_create_instant_transaction",
   "shippo_create_user_parcel_template", "shippo_create_service_group",
   "shippo_create_carrier_account", "shippo_create_refund",
   "shippo_validate_address"}

\* Handlers that read a property of a property of the result (batch.batch_shipments.count,
\* shipment.rates.length, manifest.transactions.length).
NestedReadingTools ==
  {"shippo_create_batch", "shippo_add_shipments_to_batch",
   "shippo_remove_shipments_from_batch", "shippo_create_shipment",
   "shippo_create_manifest"}

\* Handlers that embed the result in a summary without reading it.
WrappingTools ==
  {"shippo_create_parcel", "shippo_update_default_parcel_template",
   "shippo_create_customs_item", "shippo_create_customs_declaration",
   "shippo_update_service_group", "shippo_update_carrier_account",
   "shippo_create_address"}

\* Handlers with a Markdown formatter of their own.
CustomMarkdownTools ==
  {"shippo_get_batch", "shippo_get_tracking_status", "shippo_get_refund"}

\* Handlers of the operations that return nothing.
VoidTools ==
  {"shippo_delete_default_parcel_template",
   "shippo_delete_user_parcel_template", "shippo_delete_service_group"}

\* Tools that take a format argument.
FormattedTools ==
  {"shippo_get_batch", "shippo_list_parcels", "shippo_get_parcel",
   "shippo_get_default_parcel_template", "shippo_list_orders",
   "shippo_get_order", "shippo_list_shipments", "shippo_get_shipment",
   "shippo_get_tracking_status", "shippo_list_customs_items",
   "shippo_get_customs_item", "shippo_list_customs_declarations",
   "shippo_get_customs_declaration", "shippo_list_transactions",
   "shippo_get_transaction", "shippo_list_carrier_parcel_templates",
   "shippo_get_carrier_parcel_template",
   "shippo_list_user_parcel_templates", "shippo_get_user_parcel_template",
   "shippo_list_manifests", "shippo_get_manifest",
   "shippo_list_service_groups", "shippo_list_carrier_accounts",
   "shippo_get_carrier_account", "shippo_get_refund",
   "shippo_list_addresses", "shippo_get_address", "shippo_get_rate",
   "shippo_list_shipment_rates"}

\* The values format can take: z.enum(['json', 'markdown']).default('json').
Formats == {"json", "markdown"}
FormatsOf(t) == IF t \in FormattedTools THEN Formats ELSE {"json"}

\* The params a list tool passes: results always set (default 20), page optional.
ToolParams ==
  {Params(<<<<"results", ParamNum(<<"2", "0">>)>>, <<"page", Undefined>>>>),
   Params(<<<<"results", ParamNum(<<"2", "0">>)>>, <<"page", ParamNum(<<"2">>)>>>>)}
CarrierToolParams ==
  {Params(<<<<"carrier", Undefined>>, <<"include", Undefined>>,
            <<"results", ParamNum(<<"2", "0">>)>>, <<"page", Undefined>>>>),
   Params(<<<<"carrier", ParamStr(<<"a", " ", "b">>)>>, <<"include", Undefined>>,
            <<"results", ParamNum(<<"2", "0">>)>>, <<"page", ParamNum(<<"2">>)>>>>)}

\* The arguments a handler passes to its client operation.
ToolArgs(t) ==
  CASE t = "shippo_list_carrier_parcel_templates" ->
         {[NoArgs EXCEPT !.params = p] : p \in CarrierToolParams}
    [] ToolOp(t) \in TakesParams -> {[NoArgs EXCEPT !.params = p] : p \in ToolParams}
    [] OTHER -> ArgsOf(ToolOp(t))

\* A ToolResponse: one text element, isError only on the error envelope.
TextContent(text) == <<[type |-> "text", text |-> text]>>
ToolResponse(text) == [content |-> TextContent(text)]
ErrorResponse(text) == [content |-> TextContent(text), isError |-> TRUE]
IsError(e) == "isError" \in DOMAIN e /\ e.isError

\* The text a Markdown formatter makes of data.
Markdown(data) == [t |-> "markdown", of |-> data]
\* A literal object the handler builds around the result.
Summary(data) == [t |-> "object", success |-> TRUE, of |-> data]

\* An object of the entity type the operation is declared to return: every
\* property the handlers and formatters read is there.
Entity ==
  [t |-> "object", detail |-> Undefined, message |-> Undefined, error |-> Undefined,
   results |-> Undefined, entity |-> TRUE]
IsEntity(v) == v.t = "object" /\ "entity" \in DOMAIN v

\* Reading a property of null or undefined throws.
ReadOfNullish(v) ==
  Throw(TypeError(Str("Cannot read properties of null or undefined")))
\* Reading a property of an undefined property throws.
ReadOfMissing(v) ==
  Throw(TypeError(Str("Cannot read properties of undefined")))
Nullish(v) == v = Undefined \/ v = Null

\* error.retryable of the error classes.
Retryable(e) == e.class = "RateLimitError" \/ (e.class = "ShippoApiError" /\ e.statusCode >= 500)

\* formatErrorForLogging(error)
FormatErrorForLogging(e) == [t |-> "object", name |-> e.class, message |-> e.message]

\* formatError: the error envelope.
FormatError(e) ==
  LET message == "Error: " \o e.message.v
                   \o (IF InstanceOfShippoApiError(e) /\ Retryable(e) THEN " (retryable)" ELSE "")
  IN  ErrorResponse(JSONStringify([t |-> "object", error |-> Str(message),
                                   details |-> FormatErrorForLogging(e)]))

\* An array of the remote's JSON whose elements are given, in their order.
List(items) == [t |-> "array", items |-> items]
IsList(v) == v.t = "array" /\ "items" \in DOMAIN v

\* An element of a list: an entity with the properties the table of its type reads.
Item(id, name) == [t |-> "object", object_id |-> Str(id), name |-> Str(name), entity |-> TRUE]

\* PaginatedResponse: {count, next, previous, results}
Page(count, next, results) ==
  [t |-> "object", detail |-> Undefined, message |-> Undefined, error |-> Undefined,
   results |-> results, count |-> count, next |-> next, previous |-> Null]

\* data[name], undefined when data has no such property.
Field(data, name) == IF name \in DOMAIN data THEN data[name] ELSE Undefined

\* groups.length
Length(v) ==
  IF IsList(v) THEN Num(ToString(Len(v.items)))
  ELSE IF v.t \in {"array", "string"} THEN Num("length")
  ELSE Undefined

\* isPaginatedResponse(data)
IsPaginatedResponse(data) ==
  data.t = "object" /\ "results" \in DOMAIN data /\ data.results.t = "array"

\* A line of Markdown text: what it is and the values it shows.
Line(kind) == [line |-> kind]

\* A table formatter leaving out the first element.
FormatTable_SkipsFirst(items) ==
  <<Line("header"), Line("separator")>>
    \o [i \in 1..(Len(items) - 1) |-> [line |-> "row", of |-> items[i + 1]]]

\* formatAddressesTable and the table formatters of the other entity types:
\* the header row, the separator row, then one row per element in order.
FormatTable(items) ==
  <<Line("header"), Line("separator")>>
    \o [i \in 1..Len(items) |-> [line |-> "row", of |-> items[i]]]

\* formatPaginatedAsMarkdown(data, entityType), for results whose elements are given
FormatPaginatedAsMarkdown(data) ==
  LET results == data.results.items
  IN  [t |-> "markdown",
       lines |->
         <<Line("heading"), Line("blank"),
           [line |-> "total", count |-> Field(data, "count"), showing |-> Len(results)]>>
           \o (IF Truthy(Field(data, "next")) THEN <<Line("next page")>> ELSE <<>>)
           \o <<Line("blank")>>
           \o (IF Len(results) = 0 THEN <<Line("_No items found._")>>
               ELSE FormatTable(results))]

\* formatAsMarkdown(data, entityType)
FormatAsMarkdown(data) ==
  IF IsPaginatedResponse(data) /\ IsList(data.results)
  THEN FormatPaginatedAsMarkdown(data)
  ELSE Markdown(data)

\* formatResponse(data, format, entityType)
FormatResponse(data, f) ==
  IF f = "markdown"
  THEN ToolResponse(FormatAsMarkdown(data))
  ELSE ToolResponse(JSONStringify(data))

\* The statements of a handler's try block after its await, on the value v
\* the client operation returned: the envelope, or what they throw.
PostProcess(t, f, v) ==
  CASE t = "shippo_test_connection" -> Return(ToolResponse(JSONStringify(v)))
    [] t = "shippo_get_default_parcel_template" ->
         IF ~ Truthy(v)
         THEN Return(ToolResponse(JSONStringify(
                [t |-> "object", message |-> Str("No default parcel template set")])))
         ELSE Return(FormatResponse(v, f))
    [] t \in FormatTools -> Return(FormatResponse(v, f))
    [] t = "shippo_list_service_groups" ->
         IF Nullish(v) THEN ReadOfNullish(v)
         ELSE Return(FormatResponse([t |-> "object", count |-> Length(v), results |-> v], f))
    [] t \in CustomMarkdownTools ->
         IF f = "markdown"
         THEN IF Nullish(v) THEN ReadOfNullish(v)
              ELSE IF t = "shippo_get_batch" /\ ~ IsEntity(v) THEN ReadOfMissing(v)
              ELSE Return(ToolResponse(Markdown(v)))
         ELSE Return(ToolResponse(JSONStringify(v)))
    [] t \in ReadingTools ->
         IF Nullish(v) THEN ReadOfNullish(v)
         ELSE Return(ToolResponse(JSONStringify(Summary(v))))
    [] t \in NestedReadingTools ->
         IF Nullish(v) THEN ReadOfNullish(v)
         ELSE IF ~ IsEntity(v) THEN ReadOfMissing(v)
         ELSE Return(ToolResponse(JSONStringify(Summary(v))))
    [] t \in WrappingTools -> Return(ToolResponse(JSONStringify(Summary(v))))
    [] t \in VoidTools -> Return(ToolResponse(JSONStringify(Summary(Undefined))))

\* A handler without its catch block.
Handler_NoCatch(t, f, r) ==
  IF r.kind = "throw" THEN r ELSE PostProcess(t, f, r.value)

\* A handler: try { result = await client.operation(...); ... } catch (error)
\* { return formatError(error) }.  r is how the client operation ended.  The
\* catch block of shippo_test_connection builds its error envelope itself.
Handler(t, f, r) ==
  LET tried == IF r.kind = "throw" THEN r ELSE PostProcess(t, f, r.value)
  IN  IF tried.kind = "return" THEN tried
      ELSE IF t = "shippo_test_connection"
      THEN Return(ErrorResponse("Connection failed: " \o tried.error.message.v))
      ELSE Return(FormatError(tried.error))

-----------------------------------------------------------------------------
(* The Worker: its fetch handler serving HTTP requests that come in        *)
(* concurrently, each /mcp request getting a server and a client of its    *)
(* own, built from the credentials in its headers.                         *)

\* The HTTP requests in progress, by the slot that serves them.
Requests == {"r1", "r2"}

\* headers.get(name): null for an absent header, its value otherwise.
KeyHeaders == {Null, Str(""), Str("key_A"), Str("key_B")}
BaseUrlHeaders == {Null, Str("https://mock.shippo.test")}

HttpRequest(path, method, key, base) ==
  [path |-> path, method |-> method, key |-> key, base |-> base]
HttpRequests ==
  {HttpRequest("/mcp", "POST", k, b) : k \in KeyHeaders, b \in BaseUrlHeaders}
    \cup {HttpRequest("/health", "GET", Null, Null), HttpRequest("/sse", "GET", Str("key_A"), Null),
          HttpRequest("/", "GET", Str("key_A"), Null), HttpRequest("/mcp", "GET", Str("key_A"), Null)}

\* parseTenantCredentials
ParseTenantCredentials(req) ==
  [apiKey |-> Or(req.key, Undefined), baseUrl |-> Or(req.base, Undefined)]

\* validateCredentials accepting any credentials.
ValidateCredentials_NeverThrows(c) == Return(Undefined)

\* validateCredentials
ValidateCredentials(c) ==
  IF ~ Truthy(c.apiKey)
  THEN Throw([class |-> "Error",
              message |-> Str("Missing credentials. Provide X-Shippo-API-Key header.")])
  ELSE Return(Undefined)

\* createShippoClient(credentials): new ShippoClientImpl(credentials)
NoClient == [made |-> FALSE]
CreateShippoClient(c) == [made |-> TRUE, credentials |-> c, baseUrl |-> Constructor(c)]

\* What a slot holds: the request, the HTTP response once given, the server
\* and client made for it, the tool call it carries and the call of fetch
\* that tool call made.
NoSession ==
  [stage |-> "none", request |-> HttpRequest("", "", Null, Null), httpStatus |-> 0,
   servers |-> 0, client |-> NoClient, tool |-> "none", format |-> "json", args |-> NoArgs,
   outbound |-> NoCall, netCalls |-> 0, status |-> 0, body |-> NoBody, envelope |-> Pending]

Respond(req, status) == [NoSession EXCEPT !.stage = "responded", !.request = req, !.httpStatus = status]

\* createStatelessServer(credentials): a new McpServer whose tool handlers
\* close over a new client.
CreateStatelessServer(req, c) ==
  [NoSession EXCEPT !.stage = "serving", !.request = req, !.servers = 1,
                    !.client = CreateShippoClient(c)]

\* The fetch handler of the Worker up to its first await.
FetchHandler(req) ==
  IF req.path = "/health" THEN Respond(req, 200)
  ELSE IF req.path = "/mcp" /\ req.method = "POST"
  THEN LET c == ParseTenantCredentials(req)
       IN  IF ValidateCredentials(c).kind = "throw"
           THEN Respond(req, 401)
           ELSE CreateStatelessServer(req, c)
  ELSE IF req.path = "/sse" THEN Respond(req, 501)
  ELSE Respond(req, 200)

\* One client kept by the module and used by the handlers of every server.
ClientOf_Shared(r, ss) ==
  IF \E x \in Requests : ss[x].client.made /\ ss[x].request.key = Str("key_A")
  THEN ss[CHOOSE x \in Requests : ss[x].client.made /\ ss[x].request.key = Str("key_A")].client
  ELSE ss[r].client

\* The client the tool handlers of the server of request r close over.
ClientOf(r, ss) == ss[r].client

-----------------------------------------------------------------------------
(* The state machine.                                                      *)

Init ==
  /\ credentials \in Credentials
  /\ baseUrl = Constructor(credentials)
  /\ op = "none"
  /\ pc = "idle"
  /\ netCalls = 0
  /\ response = [status |-> 0, retryAfter |-> NoHeader]
  /\ body = NoBody
  /\ bodyReads = 0
  /\ requestResult = Pending
  /\ result = Pending
  /\ args = NoArgs
  /\ outbound = NoCall
  /\ tool = "none"
  /\ format = "json"
  /\ envelope = Pending
  /\ sessions = [r \in Requests |-> NoSession]

\* request ended with rr in operation o called by the handler of tool t: the
\* operation's code after the await runs, then the handler's.
Settle(t, f, o, rr) ==
  /\ requestResult' = rr
  /\ result' = Finish(o, rr)
  /\ envelope' = IF t = "none" THEN Pending ELSE Handler(t, f, Finish(o, rr))
  /\ pc' = "done"

\* The handler returning its envelope without awaiting the operation.
Dispatch_NotAwaited(t, f, o, a, call) ==
  /\ pc \in {"idle", "done"}
  /\ op' = o
  /\ args' = a
  /\ tool' = t
  /\ format' = f
  /\ response' = [status |-> 0, retryAfter |-> NoHeader]
  /\ body' = NoBody
  /\ bodyReads' = 0
  /\ LET h == GetAuthHeaders(credentials)
     IN  IF h.kind = "throw"
         THEN /\ netCalls' = 0
              /\ outbound' = NoCall
              /\ Settle(t, f, o, h)
         ELSE /\ netCalls' = 1
              /\ outbound' = FetchCall(baseUrl, call, h.value)
              /\ pc' = "fetching"
              /\ requestResult' = Pending
              /\ result' = Pending
              /\ envelope' = IF t = "none" THEN Pending ELSE Handler(t, f, Return(Entity))
  /\ UNCHANGED <<credentials, baseUrl, sessions>>

\* request(call.endpoint, call.options) is called for operation o: it runs up
\* to its await of fetch.  The headers are computed while the arguments of
\* fetch are evaluated, so a throw of getAuthHeaders ends the request with no
\* call made.
Dispatch(t, f, o, a, call) ==
  /\ pc \in {"idle", "done"}
  /\ op' = o
  /\ args' = a
  /\ tool' = t
  /\ format' = f
  /\ response' = [status |-> 0, retryAfter |-> NoHeader]
  /\ body' = NoBody
  /\ bodyReads' = 0
  /\ LET h == GetAuthHeaders(credentials)
     IN  IF h.kind = "throw"
         THEN /\ netCalls' = 0
              /\ outbound' = NoCall
              /\ Settle(t, f, o, h)
         ELSE /\ netCalls' = 1
              /\ outbound' = FetchCall(baseUrl, call, h.value)
              /\ pc' = "fetching"
              /\ requestResult' = Pending
              /\ result' = Pending
              /\ envelope' = Pending
  /\ UNCHANGED <<credentials, baseUrl, sessions>>

\* A client operation is called with arguments a.
Invoke(o, a) == Dispatch("none", "json", o, a, Endpoint(o, a))

\* request waiting after a 429 for a timer of its own before it goes on.
FetchResolve_AwaitsTimer(status, retryAfter) ==
  /\ pc = "fetching"
  /\ response' = [status |-> status, retryAfter |-> retryAfter]
  /\ LET c == Classify(status, retryAfter)
     IN  IF status = 429
         THEN /\ pc' = "sleeping"
              /\ UNCHANGED <<requestResult, result, bodyReads, envelope>>
         ELSE IF c.next = "done"
         THEN /\ Settle(tool, format, op, c.outcome)
              /\ bodyReads' = bodyReads
         ELSE /\ pc' = c.next
              /\ bodyReads' = bodyReads + 1
              /\ UNCHANGED <<requestResult, result, envelope>>
  /\ UNCHANGED <<args, outbound, tool, format, sessions>>
  /\ UNCHANGED <<credentials, baseUrl, op, netCalls, body>>

\* request calling fetch once more after a 429.
FetchResolve_RetryOn429(status, retryAfter) ==
  /\ pc = "fetching"
  /\ response' = [status |-> status, retryAfter |-> retryAfter]
  /\ LET c == Classify(status, retryAfter)
     IN  IF status = 429 /\ netCalls < 2
         THEN /\ netCalls' = netCalls + 1
              /\ UNCHANGED <<pc, requestResult, result, bodyReads, envelope>>
         ELSE /\ netCalls' = netCalls
              /\ IF c.next = "done"
                 THEN /\ Settle(tool, format, op, c.outcome)
                      /\ bodyReads' = bodyReads
                 ELSE /\ pc' = c.next
                      /\ bodyReads' = bodyReads + 1
                      /\ UNCHANGED <<requestResult, result, envelope>>
  /\ UNCHANGED <<args, outbound, tool, format, sessions>>
  /\ UNCHANGED <<credentials, baseUrl, op, body>>

\* fetch resolves with a response: the status checks of request run.
FetchResolve(status, retryAfter) ==
  /\ pc = "fetching"
  /\ response' = [status |-> status, retryAfter |-> retryAfter]
  /\ LET c == Classify(status, retryAfter)
     IN  IF c.next = "done"
         THEN /\ Settle(tool, format, op, c.outcome)
              /\ bodyReads' = bodyReads
         ELSE /\ pc' = c.next
              /\ bodyReads' = bodyReads + 1
              /\ UNCHANGED <<requestResult, result, envelope>>
  /\ UNCHANGED <<args, outbound, tool, format, sessions>>
  /\ UNCHANGED <<credentials, baseUrl, op, netCalls, body>>

\* fetch rejects: the transport failed before any response.
FetchReject ==
  /\ pc = "fetching"
  /\ Settle(tool, format, op, Throw(TypeError(Str("fetch failed"))))
  /\ UNCHANGED <<args, outbound, tool, format, sessions>>
  /\ UNCHANGED <<credentials, baseUrl, op, netCalls, response, body, bodyReads>>

\* response.text() resolves on a non-2xx response.
TextResolve(b) ==
  /\ pc = "readingText"
  /\ body' = b
  /\ Settle(tool, format, op, GenericFailure(b, response.status))
  /\ UNCHANGED <<args, outbound, tool, format, sessions>>
  /\ UNCHANGED <<credentials, baseUrl, op, netCalls, response, bodyReads>>

\* response.json() settles on a 2xx response.
JsonSettle(b) ==
  /\ pc = "readingJson"
  /\ body' = b
  /\ Settle(tool, format, op, ParsedBody(b))
  /\ UNCHANGED <<args, outbound, tool, format, sessions>>
  /\ UNCHANGED <<credentials, baseUrl, op, netCalls, response, bodyReads>>

\* The body stream fails while it is read.
BodyReject ==
  /\ pc \in {"readingText", "readingJson"}
  /\ Settle(tool, format, op, Throw(TypeError(Str("body stream failed"))))
  /\ UNCHANGED <<args, outbound, tool, format, sessions>>
  /\ UNCHANGED <<credentials, baseUrl, op, netCalls, response, body, bodyReads>>

Next ==
  \/ \E o \in Operations : \E a \in ArgsOf(o) : Invoke(o, a)
  \/ \E s \in Statuses : \E h \in HeadersOf(s) : FetchResolve(s, h)
  \/ FetchReject
  \/ \E b \in Bodies : TextResolve(b)
  \/ \E b \in Bodies : JsonSettle(b)
  \/ BodyReject

Spec == Init /\ [][Next]_vars

-----------------------------------------------------------------------------
(* The whole surface: every tool and every client operation, and request   *)
(* called with headers of the caller's, against a transport that answers   *)
(* with one status of each class.                                          *)

WireStatuses == {200, 204, 401, 404, 429, 500}
ListedItems ==
  {<<>>, <<Item("addr_1", "Jane Doe")>>,
   <<Item("addr_2", "John Roe"), Item("addr_1", "Jane Doe")>>}
WireBodies ==
  {NotJson("<html>Bad Gateway</html>"), Json(Null), Json(Entity),
   Json(Obj(Str("detail"), Undefined, Undefined, Undefined)),
   Json(Obj(Undefined, Undefined, Undefined, Arr("results")))}
    \cup {Json(Page(Num("5"), Str("https://mock.shippo.test/addresses?page=2"), List(items))) :
            items \in ListedItems}
    \cup {Json(List(items)) : items \in ListedItems}

\* A tool is called: its handler runs up to the await of its client operation.
CallTool(t, f, a) == Dispatch(t, f, ToolOp(t), a, Endpoint(ToolOp(t), a))

\* request is called with options that carry headers.
RequestWithHeaders(h) ==
  Dispatch("none", "json", "request", [NoArgs EXCEPT !.headers = h],
           Call("/addresses", [method |-> Undefined, body |-> Undefined, headers |-> h]))

\* An invocation leaves nothing behind for the next one (Dispatch sets every
\* variable of the invocation anew), so each is started on the idle client.
WireNext ==
  \/ pc = "idle" /\ \E t \in Tools : \E f \in FormatsOf(t) : \E a \in ToolArgs(t) : CallTool(t, f, a)
  \/ pc = "idle" /\ \E o \in ClientOperations : \E a \in ArgsOf(o) : Invoke(o, a)
  \/ pc = "idle" /\ \E h \in CallerHeaders : RequestWithHeaders(h)
  \/ \E s \in WireStatuses : FetchResolve(s, NoHeader)
  \/ FetchReject
  \/ \E b \in WireBodies : TextResolve(b)
  \/ \E b \in WireBodies : JsonSettle(b)
  \/ BodyReject

WireSpec == Init /\ [][WireNext]_vars

-----------------------------------------------------------------------------
(* The steps of the Worker.                                                *)

\* The tools the requests call.
ServedTools == {"shippo_get_address", "shippo_test_connection", "shippo_get_default_parcel_template"}
ServedStatuses == {200, 401, 404}
ServedBodies == {Json(Entity), Json(Obj(Str("detail"), Undefined, Undefined, Undefined))}

\* The end of a tool call that clears the API key of the client.
Served_ClearsKey(s, rr) ==
  [s EXCEPT !.stage = "done", !.httpStatus = 200,
            !.envelope = Handler(s.tool, s.format, Finish(ToolOp(s.tool), rr)),
            !.client.credentials.apiKey = Undefined]

\* The tool call of request r ended: its envelope is the body of the response.
Served(s, rr) ==
  [s EXCEPT !.stage = "done", !.httpStatus = 200,
            !.envelope = Handler(s.tool, s.format, Finish(ToolOp(s.tool), rr))]

\* An HTTP request arrives at a free slot: the fetch handler runs.
Fetch(r, req) ==
  /\ sessions[r].stage \in {"none", "responded", "done"}
  /\ sessions' = [sessions EXCEPT ![r] = FetchHandler(req)]

\* The MCP handler calls the tool the request names: the tool handler runs up
\* to the await of fetch in request, or to its end when no call is made.
HandleToolCall(r, t, f, a) ==
  /\ sessions[r].stage = "serving"
  /\ LET client == ClientOf(r, sessions)
         h == GetAuthHeaders(client.credentials)
         s == [sessions[r] EXCEPT !.tool = t, !.format = f, !.args = a]
     IN  sessions' =
           [sessions EXCEPT ![r] =
              IF h.kind = "throw" THEN Served(s, h)
              ELSE [s EXCEPT !.stage = "fetching", !.netCalls = 1,
                             !.outbound = FetchCall(client.baseUrl,
                                                    Endpoint(ToolOp(t), a), h.value)]]

\* The remote API answers the call of request r: the status checks run.
RemoteResponds(r, status) ==
  /\ sessions[r].stage = "fetching"
  /\ LET c == Classify(status, NoHeader)
         s == [sessions[r] EXCEPT !.status = status]
     IN  sessions' =
           [sessions EXCEPT ![r] =
              IF c.next = "done" THEN Served(s, c.outcome) ELSE [s EXCEPT !.stage = c.next]]

\* The body of the answer to request r is read.
BodyRead(r, b) ==
  /\ sessions[r].stage \in {"readingText", "readingJson"}
  /\ LET s == [sessions[r] EXCEPT !.body = b]
     IN  sessions' =
           [sessions EXCEPT ![r] =
              Served(s, IF sessions[r].stage = "readingText"
                        THEN GenericFailure(b, s.status)
                        ELSE ParsedBody(b))]

clientVars == <<credentials, baseUrl, op, pc, netCalls, response, body, bodyReads,
                requestResult, result, args, outbound, tool, format, envelope>>

ServerInit ==
  /\ Init
  /\ credentials = [apiKey |-> Undefined, baseUrl |-> Undefined]

ServerNext ==
  /\ \/ \E r \in Requests : \E req \in HttpRequests : Fetch(r, req)
     \/ \E r \in Requests : \E t \in ServedTools : \E f \in FormatsOf(t) :
          \E a \in ToolArgs(t) : HandleToolCall(r, t, f, a)
     \/ \E r \in Requests : \E s \in ServedStatuses : RemoteResponds(r, s)
     \/ \E r \in Requests : \E b \in ServedBodies : BodyRead(r, b)
  /\ UNCHANGED clientVars

ServerSpec == ServerInit /\ [][ServerNext]_vars

-----------------------------------------------------------------------------
(* Properties of the request pipeline.                                     *)

Taxonomy == {"AuthenticationError", "RateLimitError", "ShippoApiError"}
NoCredentialsMessage == Str("No credentials provided. Include X-Shippo-API-Key header.")
AuthFailedMessage == Str("Authentication failed. Check your Shippo API key.")
DefaultMessage(status) == Str("API error: " \o ToString(status))

KeyUsable == credentials.apiKey.t = "string" /\ credentials.apiKey.v # ""
Responded == response.status # 0
BodyDelivered == body # NoBody
\* A non-2xx status other than 429, 401 and 403.
GenericStatus(s) == s # 0 /\ (s < 200 \/ s > 299) /\ s \notin {429, 401, 403}
Failed(r) == r.kind = "throw"

\* C1, as stated: with no usable API key every client operation fails with
\* AuthenticationError and makes no outbound network call.
C1_EveryOperationThrows ==
  (pc = "done" /\ ~ KeyUsable) =>
    (Failed(result) /\ result.error.class = "AuthenticationError" /\ netCalls = 0)

\* C1, amended: with no usable API key no outbound network call is ever made;
\* every operation other than testConnection fails with the AuthenticationError
\* of getAuthHeaders, and testConnection returns {connected: false} with that
\* error's message.
C1_MissingKeyNoCall ==
  ~ KeyUsable =>
    /\ netCalls = 0
    /\ pc \in {"idle", "done"}
    /\ pc = "done" =>
         IF op = "testConnection"
         THEN result = Return([t |-> "object", connected |-> FALSE,
                               message |-> NoCredentialsMessage])
         ELSE result = Throw(AuthenticationError(NoCredentialsMessage))

C1_Witness ==
  /\ pc = "done" /\ credentials.apiKey = Str("") /\ op = "createLiveRate"
  /\ Failed(result) /\ netCalls = 0

\* C2: an invocation made with a usable key has issued exactly one outbound
\* call from its start on, and still exactly one once it has ended, whatever
\* the response status was.
C2_ExactlyOneCall ==
  (KeyUsable /\ op # "none") => netCalls = 1

C2_Witness ==
  /\ pc = "done" /\ KeyUsable /\ response.status = 429 /\ netCalls = 1

IsNumeric(h) == h.has /\ h.s # <<>> /\ \A i \in 1..Len(h.s) : h.s[i] \in Digits

\* C4: on a 429 the RateLimitError carries the integer of the Retry-After
\* header, and 60 when the header is absent or not numeric.
C4_RetryAfterOr60 ==
  (pc = "done" /\ response.status = 429) =>
    /\ Failed(requestResult)
    /\ requestResult.error.class = "RateLimitError"
    /\ requestResult.error.retryAfterSeconds =
         IF IsNumeric(response.retryAfter)
         THEN Number(Decimal(response.retryAfter.s))
         ELSE Number(60)

\* C5: on a 401 or a 403 the failure is the AuthenticationError with the one
\* fixed message, and the body is never read, so nothing of it can reach the
\* caller.
C5_FixedAuthFailure ==
  (pc = "done" /\ response.status \in {401, 403}) =>
    /\ requestResult = Throw(AuthenticationError(AuthFailedMessage))
    /\ bodyReads = 0
    /\ body = NoBody

C5_Witness ==
  /\ pc = "done" /\ response.status = 403 /\ op = "getAddress"
  /\ result = Throw(AuthenticationError(AuthFailedMessage))

\* The message the claim C6 expects: the first of detail, message, error that
\* the JSON object contains, whatever its value.
FirstContained(b, status) ==
  IF b.json /\ b.value.t = "object"
  THEN IF b.value.detail # Undefined THEN b.value.detail
       ELSE IF b.value.message # Undefined THEN b.value.message
       ELSE IF b.value.error # Undefined THEN b.value.error
       ELSE DefaultMessage(status)
  ELSE DefaultMessage(status)

\* The first of detail, message, error whose value is truthy.
FirstTruthy(b, status) ==
  IF b.json /\ b.value.t = "object"
  THEN IF Truthy(b.value.detail) THEN b.value.detail
       ELSE IF Truthy(b.value.message) THEN b.value.message
       ELSE IF Truthy(b.value.error) THEN b.value.error
       ELSE DefaultMessage(status)
  ELSE DefaultMessage(status)

\* C6, as stated: the message of the generic failure is the first of detail,
\* message, error the JSON body contains, for every value of the field, and
\* "API error: <status>" otherwise.
C6_FirstContainedField ==
  (pc = "done" /\ GenericStatus(response.status) /\ BodyDelivered) =>
    /\ Failed(requestResult)
    /\ requestResult.error.message = FirstContained(body, response.status)

\* C6, amended: the message is the first of detail, message, error whose value
\* is truthy; a field that is absent, empty, 0 or null is passed over; with no
\* truthy field, or a body that is not a JSON object, it is "API error: <status>".
C6_FirstTruthyField ==
  (pc = "done" /\ GenericStatus(response.status) /\ BodyDelivered) =>
    /\ Failed(requestResult)
    /\ requestResult.error.message = FirstTruthy(body, response.status)

C6_Witness ==
  /\ pc = "done" /\ response.status = 422
  /\ body = Json(Obj(Str(""), Str("message"), Str("error"), Undefined))
  /\ requestResult.error.message = Str("message")

\* C7: the generic failure is a ShippoApiError whose statusCode is the status
\* of the response, whether or not the body is JSON.
C7_StatusCodeAttached ==
  (pc = "done" /\ GenericStatus(response.status) /\ BodyDelivered) =>
    /\ Failed(requestResult)
    /\ requestResult.error.class = "ShippoApiError"
    /\ requestResult.error.statusCode = response.status

C7_Witness ==
  /\ pc = "done" /\ response.status = 503
  /\ body = NotJson("<html>Bad Gateway</html>")
  /\ requestResult = Throw(ShippoApiError(DefaultMessage(503), 503))

\* C8: on a 204 request returns undefined and reads no body.
C8_NoContent ==
  (pc = "done" /\ response.status = 204) =>
    /\ requestResult = Return(Undefined)
    /\ bodyReads = 0
    /\ body = NoBody

C8_Witness ==
  /\ pc = "done" /\ response.status = 204 /\ op = "deleteServiceGroup"
  /\ result = Return(Undefined)

\* C9, as stated: every failure a client operation raises is one of
\* AuthenticationError, RateLimitError, ShippoApiError.
C9_ClosedTaxonomy ==
  (pc = "done" /\ Failed(result)) => result.error.class \in Taxonomy

\* C9, amended: a failure raised for a missing key or for a non-2xx response
\* (the body of a generic one delivered) is exactly one of the three typed
\* failures; every other failure - the transport failing before or while the
\* response is read, a 2xx body that is not JSON, createLiveRate reading
\* results of null or undefined - is an untyped TypeError or SyntaxError.
C9_TaxonomyOnStatus ==
  (pc = "done" /\ Failed(result)) =>
    LET s == response.status
        typed == \/ ~ KeyUsable
                 \/ s \in {429, 401, 403}
                 \/ (GenericStatus(s) /\ BodyDelivered)
    IN  IF typed
        THEN result.error.class \in Taxonomy
        ELSE result.error.class \in {"TypeError", "SyntaxError"}

C9_Witness ==
  /\ pc = "done" /\ op = "createLiveRate" /\ response.status = 200
  /\ body = Json(Null) /\ Failed(result) /\ result.error.class = "TypeError"

\* C10: getDefaultParcelTemplate turns a failed request into null exactly when
\* the failure is a ShippoApiError of status 404; every other failure is
\* rethrown unchanged and a value the request returned is returned as is.
C10_Only404BecomesNull ==
  (pc = "done" /\ op = "getDefaultParcelTemplate") =>
    IF Failed(requestResult)
    THEN IF requestResult.error.class = "ShippoApiError"
            /\ requestResult.error.statusCode = 404
         THEN result = Return(Null)
         ELSE result = requestResult
    ELSE result = requestResult

C10_Witness ==
  /\ pc = "done" /\ op = "getDefaultParcelTemplate" /\ response.status = 404
  /\ Failed(requestResult) /\ result = Return(Null)

-----------------------------------------------------------------------------
(* Properties of the tool boundary.                                        *)

ToolDone == tool # "none" /\ pc = "done"
Returned(e) == e.kind = "return"
\* request failed with the 404 that getDefaultParcelTemplate turns into null.
NotFoundOfTemplate ==
  /\ tool = "shippo_get_default_parcel_template"
  /\ Failed(requestResult)
  /\ requestResult.error.class = "ShippoApiError"
  /\ requestResult.error.statusCode = 404
\* What the try block of the handler came to, given how the operation ended.
Tried == IF Failed(result) THEN result ELSE PostProcess(tool, format, result.value)

\* C11 as stated: for every tool, a failure raised inside request gives an
\* envelope with isError: true, the 404 of the default-parcel-template getter
\* being the only exception.
C11_EveryFailureIsError ==
  (ToolDone /\ Failed(requestResult) /\ ~ NotFoundOfTemplate)
    => (Returned(envelope) /\ IsError(envelope.value))

\* C11: a failure raised inside request gives an envelope with isError: true,
\* with two exceptions: the 404 of the default-parcel-template getter, and
\* shippo_test_connection, whose envelope is not an error and carries
\* {connected: false, message: the failure's message}.
C11_FailureIsErrorButConnection ==
  (ToolDone /\ Failed(requestResult))
    => /\ Returned(envelope)
       /\ IF tool = "shippo_test_connection"
          THEN /\ ~ IsError(envelope.value)
               /\ envelope.value.content[1].text =
                    JSONStringify([t |-> "object", connected |-> FALSE,
                                   message |-> requestResult.error.message])
          ELSE IF NotFoundOfTemplate
          THEN ~ IsError(envelope.value)
          ELSE IsError(envelope.value)

C11_Witness ==
  /\ ToolDone
  /\ tool = "shippo_test_connection"
  /\ response.status = 401
  /\ Failed(requestResult)
  /\ ~ IsError(envelope.value)

\* C12: every tool handler returns and never throws: the failure of the client
\* call or of the handler's post-processing is returned as the error envelope
\* {content: [{type: "text", text: JSON of {error, details}}], isError: true},
\* and every returned envelope has a content list of exactly one text element.
C12_HandlerReturnsEnvelope ==
  ToolDone
    => /\ Returned(envelope)
       /\ Len(envelope.value.content) = 1
       /\ envelope.value.content[1].type = "text"
       /\ Failed(Tried)
            => /\ envelope.value = FormatError(Tried.error)
               /\ IsError(envelope.value)
               /\ DOMAIN envelope.value.content[1].text.of = {"t", "error", "details"}

C12_Witness ==
  /\ ToolDone
  /\ tool = "shippo_create_batch"
  /\ response.status = 204
  /\ ~ Failed(result)
  /\ Failed(Tried)
  /\ IsError(envelope.value)

\* C13: a tool invocation makes at most one call of fetch, and its envelope is
\* there only once the call and the reading of its body are over.
C13_OneCallAwaited ==
  tool # "none"
    => /\ netCalls <= 1
       /\ envelope # Pending => pc = "done"
       /\ pc = "done" => envelope # Pending

C13_Witness ==
  /\ ToolDone
  /\ tool = "shippo_get_default_parcel_template"
  /\ netCalls = 1
  /\ bodyReads = 1
  /\ Returned(envelope)

-----------------------------------------------------------------------------
(* Properties of the calls sent to the remote API.                         *)

Sent == outbound.sent
CallerHas(k) == Truthy(args.headers) /\ k \in DOMAIN args.headers.h

\* C16: the headers of an outbound call are the computed auth headers
\* (Authorization: "ShippoToken <key>", Content-Type: application/json)
\* overlaid by the headers the caller passed: the caller's value on a common
\* key, the computed value otherwise, and no header besides.
C16_CallerHeadersOverlay ==
  Sent
    => /\ DOMAIN outbound.headers =
            {"Authorization", "Content-Type"}
              \cup (IF Truthy(args.headers) THEN DOMAIN args.headers.h ELSE {})
       /\ \A k \in DOMAIN outbound.headers :
            outbound.headers[k] =
              IF CallerHas(k) THEN args.headers.h[k]
              ELSE IF k = "Authorization" THEN "ShippoToken " \o credentials.apiKey.v
              ELSE "application/json"

C16_Witness ==
  /\ Sent
  /\ op = "request"
  /\ CallerHas("Authorization")
  /\ CallerHas("Accept")
  /\ outbound.headers["Authorization"] = "Bearer other"
  /\ outbound.headers["Content-Type"] = "application/json"
  /\ outbound.headers["Accept"] = "text/csv"

\* The entries of params whose value is neither undefined nor null.
PresentEntries(p) ==
  IF p = Undefined THEN <<>>
  ELSE SelectSeq(p.entries, LAMBDA e : e[2] # Undefined /\ e[2] # Null)

RECURSIVE JoinEntries(_)
JoinEntries(es) ==
  IF es = <<>> THEN ""
  ELSE es[1][1] \o "=" \o FormEncode(es[1][2].cs)
         \o (IF Len(es) = 1 THEN "" ELSE "&" \o JoinEntries(Tail(es)))

\* C17: the query string of a list call has key=value for exactly the params
\* whose value is neither null nor undefined, each value as its string,
\* encoded; it is empty when params is undefined, empty or has only absent
\* values, and starts with one "?" otherwise: {results: 20, page: undefined}
\* gives "?results=20".
C17_QueryString ==
  (Sent /\ op = "listAddresses")
    => /\ outbound.url =
            baseUrl.v \o "/addresses"
              \o (IF PresentEntries(args.params) = <<>> THEN ""
                  ELSE "?" \o JoinEntries(PresentEntries(args.params)))
       /\ args.params = Params(<<<<"results", ParamNum(<<"2", "0">>)>>, <<"page", Undefined>>>>)
            => outbound.url = baseUrl.v \o "/addresses?results=20"
       /\ args.params \in {Undefined, Params(<<>>), Params(<<<<"page", Null>>>>)}
            => outbound.url = baseUrl.v \o "/addresses"

C17_Witness ==
  /\ Sent
  /\ op = "listAddresses"
  /\ args.params = Params(<<<<"results", ParamNum(<<"0">>)>>, <<"page", Null>>>>)
  /\ outbound.url = baseUrl.v \o "/addresses?results=0"

\* C18 as stated: for every success body request can return, createLiveRate
\* returns the inner results of that body.
C18_AlwaysInnerResults ==
  (op = "createLiveRate" /\ pc = "done" /\ requestResult.kind = "return")
    => (result.kind = "return" /\ result.value = Prop(requestResult.value, "results"))

\* C18: for a success body that is an object, createLiveRate returns the
\* value of its results property (the inner array of {results: [...]}), not
\* the wrapping object; for a success without body (204) or of body null it
\* fails with a TypeError.
C18_InnerResultsOfObject ==
  (op = "createLiveRate" /\ pc = "done" /\ requestResult.kind = "return")
    => IF requestResult.value \in {Undefined, Null}
       THEN Failed(result) /\ result.error.class = "TypeError"
       ELSE /\ result.kind = "return"
            /\ result.value = Prop(requestResult.value, "results")
            /\ requestResult.value.t = "object" => result.value # requestResult.value

C18_Witness ==
  /\ op = "createLiveRate"
  /\ pc = "done"
  /\ requestResult = Return(Obj(Undefined, Undefined, Undefined, Arr("rates")))
  /\ result = Return(Arr("rates"))

ActionOperations ==
  {"purchaseBatch", "validateAddress", "addShipmentsToBatch", "removeShipmentsFromBatch"}
\* <collection>/<id>/<verb> of an action operation on the entity id.
ActionPath(o, id) ==
  CASE o = "purchaseBatch" -> "/batches/" \o id \o "/purchase"
    [] o = "validateAddress" -> "/addresses/" \o id \o "/validate"
    [] o = "addShipmentsToBatch" -> "/batches/" \o id \o "/add_shipments"
    [] o = "removeShipmentsFromBatch" -> "/batches/" \o id \o "/remove_shipments"

\* C19 as stated: every action operation is a POST to <collection>/<id>/<verb>.
C19_ActionsArePost ==
  (Sent /\ op \in ActionOperations)
    => (HttpMethod(outbound) = "POST" /\ outbound.url = baseUrl.v \o ActionPath(op, args.id))

\* C19: every action operation goes to <collection>/<id>/<verb>; purchase
\* batch and add/remove batch shipments are POSTs, validate address is a GET.
C19_ActionsPostButValidate ==
  (Sent /\ op \in ActionOperations)
    => /\ outbound.url = baseUrl.v \o ActionPath(op, args.id)
       /\ args.id \in Ids
       /\ HttpMethod(outbound) = IF op = "validateAddress" THEN "GET" ELSE "POST"

C19_Witness ==
  /\ Sent
  /\ op = "validateAddress"
  /\ HttpMethod(outbound) = "GET"
  /\ outbound.url = baseUrl.v \o "/addresses/obj_1/validate"

UpdateOperations == {"updateCarrierAccount", "updateServiceGroup", "updateDefaultParcelTemplate"}
UpdatedCollection(o) ==
  CASE o = "updateCarrierAccount" -> "/carrier_accounts"
    [] o = "updateServiceGroup" -> "/service-groups"
    [] o = "updateDefaultParcelTemplate" -> "/live-rates/settings/parcel-template"

\* C20: every update operation is a PUT to <collection>/<id>, the id of the
\* entity updated in the path, with the JSON-encoded input as body.
C20_UpdatesPutToId ==
  (Sent /\ op \in UpdateOperations)
    => /\ HttpMethod(outbound) = "PUT"
       /\ outbound.body = JSONStringify(args.input)
       /\ args.id \in Ids
       /\ outbound.url = baseUrl.v \o UpdatedCollection(op) \o "/" \o args.id

-----------------------------------------------------------------------------
(* Properties of the Worker.                                               *)

\* How request ends for a session, from what that session alone received.
OwnOutcome(s) ==
  LET c == Classify(s.status, NoHeader)
  IN  IF ~ s.outbound.sent THEN GetAuthHeaders(ParseTenantCredentials(s.request))
      ELSE IF c.next = "done" THEN c.outcome
      ELSE IF c.next = "readingText" THEN GenericFailure(s.body, s.status)
      ELSE ParsedBody(s.body)

\* C14: whatever the interleaving of the requests, every outbound call carries
\* the API key and the base URL of the request whose tool call made it, and the
\* envelope a request gets is determined by its own headers, its own tool call
\* and the answer to its own outbound call.
C14_InvocationsIndependent ==
  \A r \in Requests :
    LET s == sessions[r]
    IN  /\ s.outbound.sent
             => /\ s.outbound.headers["Authorization"] = "ShippoToken " \o s.request.key.v
                /\ s.outbound.url =
                     (IF Truthy(s.request.base) THEN s.request.base.v ELSE API_BASE_URL)
                       \o Endpoint(ToolOp(s.tool), s.args).endpoint
        /\ s.stage = "done"
             => s.envelope = Handler(s.tool, s.format, Finish(ToolOp(s.tool), OwnOutcome(s)))

C14_Witness ==
  /\ sessions["r1"].stage = "fetching"
  /\ sessions["r2"].stage = "done"
  /\ sessions["r1"].request.key = Str("key_B")
  /\ sessions["r2"].request.key = Str("key_A")
  /\ sessions["r1"].request.base # sessions["r2"].request.base
  /\ sessions["r1"].outbound.headers["Authorization"] = "ShippoToken key_B"
  /\ sessions["r2"].outbound.headers["Authorization"] = "ShippoToken key_A"

\* C15: a POST to /mcp whose X-Shippo-API-Key header is absent or empty is
\* answered 401 with no server and no client created and no call sent to the
\* remote API.
C15_KeylessRejected ==
  \A r \in Requests :
    LET s == sessions[r]
    IN  (/\ s.stage # "none"
         /\ s.request.path = "/mcp"
         /\ s.request.method = "POST"
         /\ s.request.key \in {Null, Str("")})
          => /\ s.stage = "responded"
             /\ s.httpStatus = 401
             /\ s.servers = 0
             /\ ~ s.client.made
             /\ ~ s.outbound.sent
             /\ s.netCalls = 0

C15_Witness ==
  /\ sessions["r1"].request = HttpRequest("/mcp", "POST", Str(""), Str("https://mock.shippo.test"))
  /\ sessions["r1"].httpStatus = 401
  /\ sessions["r2"].request.key = Str("key_A")
  /\ sessions["r2"].stage = "fetching"

-----------------------------------------------------------------------------
(* The collections of the remote API and the base URL of the calls.        *)

\* The collections as the description of the client names them, and as the
\* paths of the client spell them.
DescribedCollections ==
  {"addresses", "parcels", "shipments", "rates", "transactions", "tracking", "refunds",
   "carrier-accounts", "customs/items", "customs/declarations", "manifests", "batches",
   "pickups", "orders", "service-groups", "parcel-templates", "user-parcel-templates",
   "live-rates"}
PathCollections ==
  (DescribedCollections \ {"tracking", "carrier-accounts"}) \cup {"tracks", "carrier_accounts"}

\* What may follow the collection segment in the path of a call made with
\* arguments a: nothing, a query string, an id, an id and a further segment.
AfterCollection(a) ==
  {"", "?results=1", BuildQueryString(a.params), "/settings/parcel-template"}
    \cup {"/" \o a.id \o rest :
            rest \in {"", "/validate", "/rates", "/add_shipments", "/remove_shipments",
                      "/purchase"}
                       \cup (IF Truthy(a.sub) THEN {"/" \o a.sub.v, "/rates/" \o a.sub.v} ELSE {})}

\* The URL of the outbound call is the base URL, a collection of cs and what
\* may follow a collection.
UrlInCollections(cs) ==
  \E c \in cs : \E rest \in AfterCollection(args) : outbound.url = baseUrl.v \o "/" \o c \o rest

\* C21 as stated: the collection segment of every outbound path is one of the
\* described names, tracking and carrier-accounts among them.
C21_DescribedCollections == Sent => UrlInCollections(DescribedCollections)

\* C21: the collection segment of the path of every outbound call is one of
\* the described names, with tracks for tracking and carrier_accounts for
\* carrier-accounts.
C21_PathCollections == Sent => UrlInCollections(PathCollections)

C21_Witness ==
  /\ Sent
  /\ op = "getTrackingStatus"
  /\ outbound.url = baseUrl.v \o "/tracks/usps/9400100000000000000000"
  /\ ~ UrlInCollections(DescribedCollections)

\* C23: the base URL of the client is the baseUrl of its credentials when that
\* is present (truthy) and the default origin https://api.goshippo.com
\* otherwise, and the URL of every outbound call is that base followed by the
\* path of the operation.
C23_EffectiveBaseUrl ==
  LET base == IF Truthy(credentials.baseUrl) THEN credentials.baseUrl.v
              ELSE "https://api.goshippo.com"
  IN  /\ baseUrl = Str(base)
      /\ Sent => outbound.url =
                   base \o (IF op = "request" THEN "/addresses"
                            ELSE Endpoint(op, args).endpoint)

C23_Witness ==
  /\ Sent
  /\ op = "getParcel"
  /\ credentials.baseUrl = Str("https://mock.shippo.test")
  /\ outbound.url = "https://mock.shippo.test/parcels/obj_2"

C23_WitnessDefault ==
  /\ Sent
  /\ credentials.baseUrl = Undefined
  /\ outbound.url = "https://api.goshippo.com/carrier_accounts/obj_1"

\* C27: the query string of a list call has the present params in the order
\* the params object holds them, each key once: two present params k1, k2 held
\* in that order give "?k1=v1&k2=v2", whatever the keys are.
C27_InsertionOrder ==
  (Sent /\ op = "listAddresses" /\ Truthy(args.params))
    => LET es == args.params.entries
           present(i) == es[i][2] # Undefined /\ es[i][2] # Null
           pair(i) == es[i][1] \o "=" \o FormEncode(String(es[i][2]))
           path == baseUrl.v \o "/addresses"
       IN  /\ (Len(es) = 2 /\ present(1) /\ present(2))
                => outbound.url = path \o "?" \o pair(1) \o "&" \o pair(2)
           /\ (Len(es) = 2 /\ present(1) /\ ~ present(2))
                => outbound.url = path \o "?" \o pair(1)
           /\ (Len(es) = 2 /\ ~ present(1) /\ present(2))
                => outbound.url = path \o "?" \o pair(2)

C27_Witness ==
  /\ Sent
  /\ op = "listAddresses"
  /\ args.params = Params(<<<<"page", ParamNum(<<"2", "0">>)>>, <<"results", ParamNum(<<"0">>)>>>>)
  /\ outbound.url = baseUrl.v \o "/addresses?page=20&results=0"

-----------------------------------------------------------------------------
(* Operations that answer a failure with a value.                          *)

\* C29: testConnection never throws; it returns connected: true exactly when
\* its request succeeded, and for every failure of the request - no usable
\* key, 401 or 403, 429, another non-2xx status, the transport or the reading
\* of the body failing - connected: false with the message of the failure.
C29_TestConnectionNeverThrows ==
  (pc = "done" /\ op = "testConnection")
    => /\ result.kind = "return"
       /\ result.value.connected <=> requestResult.kind = "return"
       /\ result.value.connected => (KeyUsable /\ Responded /\ ResponseOk(response.status))
       /\ Failed(requestResult)
            => result.value = [t |-> "object", connected |-> FALSE,
                               message |-> requestResult.error.message]

C29_Witness ==
  /\ pc = "done"
  /\ op = "testConnection"
  /\ response.status = 429
  /\ result.kind = "return"
  /\ ~ result.value.connected
  /\ result.value.message = requestResult.error.message

C29_WitnessConnected ==
  /\ pc = "done"
  /\ op = "testConnection"
  /\ response.status = 200
  /\ result.kind = "return"
  /\ result.value.connected

\* The envelope of shippo_get_default_parcel_template when no template is set.
NoTemplateEnvelope ==
  ToolResponse(JSONStringify([t |-> "object",
                              message |-> Str("No default parcel template set")]))
TemplateToolDone == ToolDone /\ tool = "shippo_get_default_parcel_template"

-----------------------------------------------------------------------------
(* The tools the README documents.                                         *)

\* The names under "Available Tools" of the README, in its order.
ReadmeTools ==
  {"shippo_validate_address", "shippo_create_address", "shippo_list_addresses",
   "shippo_get_address", "shippo_create_shipment", "shippo_list_shipments",
   "shippo_get_shipment", "shippo_get_rates", "shippo_get_live_rates",
   "shippo_create_label", "shippo_list_transactions", "shippo_get_transaction",
   "shippo_track_shipment", "shippo_register_tracking_webhook",
   "shippo_get_tracking_status", "shippo_create_batch", "shippo_get_batch",
   "shippo_add_to_batch", "shippo_purchase_batch", "shippo_create_customs_declaration",
   "shippo_create_customs_item", "shippo_list_customs_declarations",
   "shippo_create_manifest", "shippo_list_manifests", "shippo_get_manifest",
   "shippo_create_pickup", "shippo_list_pickups", "shippo_create_refund",
   "shippo_list_refunds", "shippo_get_refund", "shippo_list_carrier_accounts",
   "shippo_create_carrier_account", "shippo_update_carrier_account"}

\* C26: every tool name the README lists under Available Tools is a tool the
\* server registers, so that the server waiting for a call can be called with it.
C26_ReadmeToolsRegistered == pc = "idle" => \A t \in ReadmeTools : t \in Tools

-----------------------------------------------------------------------------
(* The credentials of a request.                                           *)

Serving == {"serving", "fetching", "readingText", "readingJson"}

\* What a step does to the slot of request r: the client made for a request is
\* the one constructed of the headers of that request; a step of the serving
\* of the request leaves its client (API key, base URL) and its request as
\* they are, whether the call succeeds or fails; a new request at the slot
\* starts from what the fetch handler builds of that request alone; and no
\* other slot is written.
OwnedStep(r) ==
  LET s == sessions[r]
      t == sessions'[r]
  IN  /\ t.client.made => t.client = CreateShippoClient(ParseTenantCredentials(t.request))
      /\ (s.stage \in Serving /\ t # s) => (t.client = s.client /\ t.request = s.request)
      /\ (s.stage \notin Serving /\ t # s) => t = FetchHandler(t.request)
      /\ t # s => \A q \in Requests \ {r} : sessions'[q] = sessions[q]

\* C24: credentials are not persisted, mutated or shared: the client of a
\* request keeps the API key and base URL it was constructed with through
\* every step of its operation, successful or failing, and nothing written
\* while one request is served is read or written while another is served.
C24_CredentialsOwned == [][\A r \in Requests : OwnedStep(r)]_vars

C24_Witness ==
  /\ sessions["r1"].stage = "done"
  /\ sessions["r1"].status = 401
  /\ IsError(sessions["r1"].envelope.value)
  /\ sessions["r1"].client.credentials.apiKey = Str("key_A")
  /\ sessions["r2"].stage = "readingJson"
  /\ sessions["r2"].client.credentials = [apiKey |-> Str("key_B"), baseUrl |-> Undefined]

-----------------------------------------------------------------------------
(* Termination of a tool call whose outbound call completes.               *)

\* What request awaits: fetch, and the reading of the body of its response.
\* Each settles, one way or the other, when the transport completes.
Completes ==
  \/ \E s \in WireStatuses : FetchResolve(s, NoHeader)
  \/ FetchReject
  \/ \E b \in WireBodies : TextResolve(b)
  \/ \E b \in WireBodies : JsonSettle(b)
  \/ BodyReject

\* The whole surface with a transport that completes every call it is given.
WireLive == WireSpec /\ WF_vars(Completes)

Awaits == {"fetching", "readingText", "readingJson"}

\* C28: when the outbound call completes, whatever its status and body, every
\* tool invocation returns an envelope, and only one; a handler and request
\* wait for nothing but fetch and the reading of the response body.
C28_ToolCallReturns ==
  /\ [](pc \in {"idle", "done"} \cup Awaits)
  /\ (tool # "none") ~> (pc = "done" /\ Returned(envelope))
  /\ [][envelope # Pending => envelope' = envelope]_vars

C28_Witness ==
  /\ ToolDone
  /\ tool = "shippo_create_shipment"
  /\ response.status = 500
  /\ body = NotJson("<html>Bad Gateway</html>")
  /\ bodyReads = 1
  /\ Returned(envelope)
  /\ IsError(envelope.value)

-----------------------------------------------------------------------------
(* The output of the list tools.                                           *)

ListTools ==
  {t \in Tools : ToolOp(t) \in TakesParams \cup {"listShipmentRates", "listServiceGroups"}}

\* The remote answered the call of a list tool with a list: the envelope
\* {count, next, previous, results}, or the bare array of the service groups.
Listed ==
  /\ ToolDone
  /\ tool \in ListTools
  /\ response.status = 200
  /\ body.json
  /\ IF tool = "shippo_list_service_groups" THEN IsList(body.value)
     ELSE IsPaginatedResponse(body.value) /\ IsList(body.value.results)
ListedResults == IF IsList(body.value) THEN body.value.items ELSE body.value.results.items

Text == envelope.value.content[1].text
RowsOf(text) == SelectSeq(text.lines, LAMBDA l : l.line = "row")
HasTable(text) == \E i \in 1..Len(text.lines) : text.lines[i].line = "header"
RowPerResult(text) ==
  /\ Len(RowsOf(text)) = Len(ListedResults)
  /\ \A i \in 1..Len(ListedResults) : RowsOf(text)[i] = [line |-> "row", of |-> ListedResults[i]]

C22_WitnessOrder ==
  /\ Listed
  /\ tool = "shippo_list_service_groups"
  /\ format = "markdown"
  /\ Len(RowsOf(Text)) = 2
  /\ RowsOf(Text)[1].of = Item("addr_2", "John Roe")

C22_WitnessJson ==
  /\ Listed
  /\ tool = "shippo_list_shipment_rates"
  /\ format = "json"
  /\ Text = JSONStringify(body.value)

====
